---------------------------- MODULE Spec2Model ----------------------------
(***************************************************************************)
(* Model of the libcanard DSDL compiler scripts.                           *)
(*                                                                         *)
(*   compile_dsdl.py                       topological_sort,               *)
(*                                         solve_types_dependency          *)
(*   libcanard_dsdl_compiler/__init__.py   type_to_c_type,                 *)
(*                                         generate_one_type,              *)
(*                                         run_generator,                  *)
(*                                         write_generated_data            *)
(*                                                                         *)
(* The module holds four independent machines that share one variable      *)
(* tuple; each specification runs one machine and keeps the others idle.   *)
(*   Spec / SpecRecompile   the type dependency resolver                   *)
(*   SpecMapper             type_to_c_type applied to one type             *)
(*   SpecEmit               run_generator over a list of compound types    *)
(*   SpecNormalize          the text normalisation of generate_one_type    *)
(***************************************************************************)
EXTENDS Integers, Sequences, FiniteSets, TLC

VARIABLES
    \* ---- resolver (compile_dsdl.py) ----
    entry,          \* which function the caller invoked
    types,          \* argument of solve_types_dependency: full_name -> fields
    graph,          \* the dict as it was handed to topological_sort
    dependencies,   \* the dict topological_sort works on (mutated in place)
    S,              \* the set S of topological_sort
    output,         \* the sequence of values yielded so far
    pc,             \* position of the generator
    compiles,       \* number of resolutions of this input started so far
    prev_output,    \* what the previous resolution of this input yielded
    \* ---- mapper (type_to_c_type) ----
    arg,            \* the type handed to type_to_c_type
    view,           \* the dictionary it returned
    \* ---- emitter (run_generator) ----
    tlist,          \* the list of types handed to run_generator
    tobj,           \* the Type objects, by full name (mutated in place)
    header_only,    \* the header_only argument
    idx,            \* index in tlist of the type being generated
    epc,            \* position inside the loop body of run_generator
    header_text,    \* local header_text of run_generator
    code_text,      \* local code_text of run_generator
    fs,             \* the output tree: path -> file
    clock,          \* file system time: advances with every modification
    runs,           \* number of run_generator calls started
    fs_before,      \* the output tree as it was when the current run started
    \* ---- text normalisation (generate_one_type, "Generation") ----
    raw_text,       \* the text the template engine returned
    norm_text       \* the text generate_one_type returns for it, once computed

resolverVars == <<entry, types, graph, dependencies, S, output, pc, compiles, prev_output>>
mapperVars   == <<arg, view>>
emitVars     == <<tlist, tobj, header_only, idx, epc, header_text, code_text,
                  fs, clock, runs, fs_before>>
normVars     == <<raw_text, norm_text>>
vars == <<resolverVars, mapperVars, emitVars, normVars>>

---------------------------------------------------------------------------
(* Bounds *)

\* longest dependency list handed directly to topological_sort
MaxDeps == 2
\* largest number of fields of a type handed to solve_types_dependency
MaxTypeFields == 2
\* number of times the same input is resolved
MaxCompiles == 2
\* largest declared bit length of a primitive handed to type_to_c_type
MaxBitlen == 64
\* largest max_size of an array type
MaxArraySize == 2
\* largest number of fields in one field list of a generated type
MaxFieldCount == 4
\* number of times run_generator is run on the same input and output directory
MaxRuns == 2
\* longest run of line breaks in a text the template engine returns
MaxBreakRun == 13

---------------------------------------------------------------------------
(* Type descriptors (uavcan.dsdl Type objects as seen by the scripts).      *)
(* One record shape serves every category; for an array the fields         *)
(* full_name, kind, bitlen and cast_mode describe its value_type.          *)

Names == {"a", "b", "c"}

TypeRec(category, value_category, full_name, kind, bitlen, cast_mode, mode, max_size) ==
    [category |-> category, value_category |-> value_category,
     full_name |-> full_name, kind |-> kind, bitlen |-> bitlen,
     cast_mode |-> cast_mode, mode |-> mode, max_size |-> max_size]

CompoundType(n) == TypeRec("compound", "none", n, "message", 0, "none", "none", 0)
PrimitiveType(kind, bitlen, cast_mode) ==
    TypeRec("primitive", "none", "", kind, bitlen, cast_mode, "none", 0)
VoidType(bitlen) == TypeRec("void", "none", "", "none", bitlen, "none", "none", 0)
ArrayType(vt, mode, max_size) ==
    [vt EXCEPT !.category = "array", !.value_category = vt.category,
               !.mode = mode, !.max_size = max_size]
\* t.value_type of an array type
value_type(t) ==
    [t EXCEPT !.category = t.value_category, !.value_category = "none",
              !.mode = "none", !.max_size = 0]

---------------------------------------------------------------------------
(* compile_dsdl.py: the resolver *)

\* A dependency list is kept as a multiset name -> number of occurrences:
\* the code only tests membership and emptiness and removes one occurrence.
EmptyDeps == [n \in Names |-> 0]
DepsSize(d) == d["a"] + d["b"] + d["c"]
DepLists == {d \in [Names -> 0..MaxDeps] : DepsSize(d) <= MaxDeps}

\* "not v" / "not dependencies[m]"
IsEmptyDeps(d) == \A n \in Names : d[n] = 0
\* "package in packages"
Contains(d, n) == d[n] > 0
\* list.remove(x) / set.remove(x): one occurrence goes
Remove(d, n) == [d EXCEPT ![n] = d[n] - 1]

\* The inner function depends_on of topological_sort
depends_on(deps, package) ==
    {key \in DOMAIN deps : Contains(deps[key], package)}

\* S = {k for k, v in dependencies.items() if not v}
InitialS(deps) == {k \in DOMAIN deps : IsEmptyDeps(deps[k])}

\* any(dep for dep in dependencies.values())
AnyAll(deps) == \A k \in DOMAIN deps : ~IsEmptyDeps(deps[k])
AnyRemaining(deps) == \E k \in DOMAIN deps : ~IsEmptyDeps(deps[k])

\* The field types a type handed to solve_types_dependency may have
ResolverFieldTypes ==
    {CompoundType(n) : n \in Names}
    \cup {ArrayType(CompoundType(n), "dynamic", 2) : n \in Names}
    \cup {PrimitiveType("uint", 8, "saturated")}

FieldSets == {fsub \in SUBSET ResolverFieldTypes : Cardinality(fsub) <= MaxTypeFields}

\* The loop over t.fields of solve_types_dependency: the set built for one type
FieldDependencies(fields) ==
    [n \in Names |->
        IF \E f \in fields : f.category = "compound" /\ f.full_name = n
        THEN 1 ELSE 0]

\* dependencies as built by solve_types_dependency
BuildDependencies(ts) == [t \in DOMAIN ts |-> FieldDependencies(ts[t])]

NoTypes == [n \in {} |-> {}]
NoGraph == [n \in {} |-> EmptyDeps]

ResolverIdle ==
    /\ entry = "none" /\ types = NoTypes /\ graph = NoGraph
    /\ dependencies = NoGraph /\ S = {} /\ output = <<>> /\ pc = "idle"
    /\ compiles = 0 /\ prev_output = <<>>

\* The caller holds either a dict for topological_sort or a list of types for
\* solve_types_dependency
InitResolver ==
    /\ entry \in {"topological_sort", "solve_types_dependency"}
    /\ \E K \in (SUBSET Names) \ {{}} :
          IF entry = "topological_sort"
          THEN /\ types = NoTypes
               /\ dependencies \in [K -> DepLists]
               /\ pc = "topo_start"
          ELSE /\ types \in [K -> FieldSets]
               /\ dependencies = NoGraph
               /\ pc = "solve_start"
    /\ graph = dependencies
    /\ S = {}
    /\ output = <<>>
    /\ compiles = 1
    /\ prev_output = <<>>

\* solve_types_dependency up to its call of topological_sort
SolveBuild ==
    /\ pc = "solve_start"
    /\ dependencies' = BuildDependencies(types)
    /\ graph' = dependencies'
    /\ pc' = "topo_start"
    /\ UNCHANGED <<entry, types, S, output, compiles, prev_output, mapperVars, emitVars, normVars>>

\* topological_sort up to the while loop
TopoStart ==
    /\ pc = "topo_start"
    /\ S' = InitialS(dependencies)
    /\ pc' = "loop"
    /\ UNCHANGED <<entry, types, graph, dependencies, output, compiles, prev_output, mapperVars, emitVars, normVars>>

\* One iteration of "while S": pop, yield, release the dependents
TopoStep ==
    /\ pc = "loop"
    /\ S # {}
    /\ \E current \in S :
          LET users == depends_on(dependencies, current)
              deps2 == [k \in DOMAIN dependencies |->
                           IF k \in users THEN Remove(dependencies[k], current)
                                          ELSE dependencies[k]]
          IN /\ output' = Append(output, current)
             /\ dependencies' = deps2
             /\ S' = (S \ {current}) \cup {m \in users : IsEmptyDeps(deps2[m])}
    /\ UNCHANGED <<entry, types, graph, pc, compiles, prev_output, mapperVars, emitVars, normVars>>

\* The loop is over and something is left: raise ValueError
TopoRaise ==
    /\ pc = "loop"
    /\ S = {}
    /\ AnyRemaining(dependencies)
    /\ pc' = "failed"
    /\ UNCHANGED <<entry, types, graph, dependencies, S, output, compiles, prev_output, mapperVars, emitVars, normVars>>

\* The loop is over and nothing is left: the generator returns
TopoReturn ==
    /\ pc = "loop"
    /\ S = {}
    /\ ~AnyRemaining(dependencies)
    /\ pc' = "done"
    /\ UNCHANGED <<entry, types, graph, dependencies, S, output, compiles, prev_output, mapperVars, emitVars, normVars>>

\* main() run once more on the same schema: the input is equal, everything the
\* previous resolution built is gone
Recompile ==
    /\ pc = "done"
    /\ compiles < MaxCompiles
    /\ prev_output' = output
    /\ compiles' = compiles + 1
    /\ output' = <<>>
    /\ S' = {}
    /\ dependencies' = IF entry = "topological_sort" THEN graph ELSE NoGraph
    /\ pc' = IF entry = "topological_sort" THEN "topo_start" ELSE "solve_start"
    /\ UNCHANGED <<entry, types, graph, mapperVars, emitVars, normVars>>

---------------------------------------------------------------------------
(* Resolver: what the claims speak about *)

\* The compound types a type references through its fields, arrays unwrapped
TypeReferences(fields) ==
    {f.full_name : f \in {g \in fields :
        \/ g.category = "compound"
        \/ g.category = "array" /\ g.value_category = "compound"}}

\* The types n references directly, in the input the caller supplied
References(n) ==
    IF entry = "solve_types_dependency"
    THEN IF n \in DOMAIN types THEN TypeReferences(types[n]) ELSE {}
    ELSE IF n \in DOMAIN graph THEN {d \in Names : Contains(graph[n], d)} ELSE {}

\* The edges of the dict handed to topological_sort
GraphEdges(n) ==
    IF n \in DOMAIN graph THEN {d \in Names : Contains(graph[n], d)} ELSE {}

RECURSIVE Reach(_, _, _, _)
\* Nodes reachable from the frontier in one or more steps of edges E
Reach(E(_), frontier, seen, fuel) ==
    LET next == UNION {E(n) : n \in frontier}
    IN IF fuel = 0 \/ next \subseteq seen THEN seen \cup next
       ELSE Reach(E, next \ seen, seen \cup next, fuel - 1)

TransitiveReferences(n) == Reach(References, {n}, {}, Cardinality(Names))
TransitiveEdges(n) == Reach(GraphEdges, {n}, {}, Cardinality(Names))

\* Every referenced type is itself part of the input
ReferencesClosed ==
    LET keys == IF entry = "solve_types_dependency" THEN DOMAIN types ELSE DOMAIN graph
    IN \A n \in keys : References(n) \subseteq keys

ReferencesAcyclic == \A n \in Names : n \notin TransitiveReferences(n)
GraphHasCycle == \E n \in Names : n \in TransitiveEdges(n)

\* d was yielded before position i
YieldedBefore(d, i) == \E j \in 1..(i - 1) : output[j] = d

\* Every yielded node comes after everything the dict handed to
\* topological_sort makes it depend on (auxiliary fact about topological_sort)
TopoOrderRespectsGraph ==
    \A i \in 1..Len(output) :
        \A d \in TransitiveEdges(output[i]) : YieldedBefore(d, i)

\* C1: for an acyclic input, every type in the output order comes strictly
\* after every type it references, directly or transitively (through compound
\* fields and through arrays of compounds).
C1_OrderAfterReferences ==
    (ReferencesAcyclic /\ ReferencesClosed) =>
        \A i \in 1..Len(output) :
            \A d \in TransitiveReferences(output[i]) : YieldedBefore(d, i)

\* C2: a dict with a dependency cycle never makes topological_sort return
\* normally; when its loop runs dry the ValueError is what comes next.
C2_CycleRejected ==
    GraphHasCycle =>
        /\ pc # "done"
        /\ (pc = "loop" /\ S = {}) => AnyRemaining(dependencies)

\* C2 witness: a cyclic dict with nodes outside the cycle ended in ValueError
C2_Witness ==
    /\ GraphHasCycle
    /\ pc = "failed"
    /\ output # <<>>
    /\ \E k \in DOMAIN graph : IsEmptyDeps(dependencies[k]) /\ ~IsEmptyDeps(graph[k])

\* C3: the second resolution of an equal input yields the same sequence as
\* the first.
C3_SameOrderTwice ==
    (compiles = 2 /\ pc = "done") => output = prev_output

\* C9: the dependency map makes each type depend on every compound type its
\* fields reference, also through arrays, so that a type with a field
\* "array of B" is yielded after B.
C9_ArrayElementDependency ==
    (entry = "solve_types_dependency" /\ pc # "solve_start") =>
        \A t \in DOMAIN types :
            /\ \A d \in TypeReferences(types[t]) : d # t => Contains(graph[t], d)
            /\ \A i \in 1..Len(output) :
                  output[i] = t =>
                      \A d \in TypeReferences(types[t]) \cap DOMAIN types :
                          d # t => YieldedBefore(d, i)

\* every dependency of the dict handed to topological_sort is one of its keys
DependenciesNameKeys ==
    \A k \in DOMAIN graph : \A n \in Names : Contains(graph[k], n) => n \in DOMAIN graph

\* no dependency list of the dict names a dependency twice
ListsWithoutDuplicates ==
    \A k \in DOMAIN graph : \A n \in Names : graph[k][n] <= 1

\* the run has not failed, no node was yielded twice, and a run that ended
\* has yielded every key
YieldsEachKeyOnce ==
    /\ pc # "failed"
    /\ \A i, j \in 1..Len(output) : output[i] = output[j] => i = j
    /\ pc = "done" => {output[i] : i \in 1..Len(output)} = DOMAIN graph

\* The permutation property for dicts whose lists name each dependency once
\* (auxiliary fact about topological_sort)
TopoPermutationWithoutDuplicates ==
    (~GraphHasCycle /\ DependenciesNameKeys /\ ListsWithoutDuplicates) =>
        YieldsEachKeyOnce

\* C14: for an acyclic dict whose dependencies all name keys,
\* topological_sort ends normally having yielded every key exactly once,
\* whichever eligible node it picks.
C14_OutputIsPermutation ==
    (~GraphHasCycle /\ DependenciesNameKeys) => YieldsEachKeyOnce

\* C10: when the dict has a cycle nothing is yielded before the failure.
C10_NoPartialOrder ==
    GraphHasCycle => output = <<>>

---------------------------------------------------------------------------

(* libcanard_dsdl_compiler: type_to_c_type *)

RECURSIVE bit_length(_)
\* int.bit_length()
bit_length(n) == IF n = 0 THEN 0 ELSE 1 + bit_length(n \div 2)

\* expand_to_next_full with "<" written for "<="
expand_to_next_full_lt(size) ==
    IF size < 8 THEN 8
    ELSE IF size < 16 THEN 16
    ELSE IF size < 32 THEN 32
    ELSE IF size < 64 THEN 64
    ELSE 0

\* expand_to_next_full; 0 stands for the None of the fall-through
expand_to_next_full(size) ==
    IF size <= 8 THEN 8
    ELSE IF size <= 16 THEN 16
    ELSE IF size <= 32 THEN 32
    ELSE IF size <= 64 THEN 64
    ELSE 0

\* the integer branch with the exact-fit exception left out
integer_saturate_always(saturate, bitlen) == saturate

\* The integer branch of type_to_c_type: "if saturate: if
\* expand_to_next_full(t.bitlen) == t.bitlen: saturate = False"
integer_saturate(saturate, bitlen) ==
    IF saturate
    THEN IF expand_to_next_full(bitlen) = bitlen THEN FALSE ELSE saturate
    ELSE saturate

\* The dictionary type_to_c_type returns.  cpp_type is kept as its two parts
\* (the text before the width and the width); the keys post_cpp_type,
\* cpp_type_comment (pure formatting) and max_size (2 ** bits - 1) are left out.
\* array holds the keys only an array's dictionary has.
ViewRec(raised, base, width, bitlen, signedness, saturate, array) ==
    [raised |-> raised, cpp_type |-> [base |-> base, width |-> width],
     bitlen |-> bitlen, signedness |-> signedness, saturate |-> saturate,
     array |-> array]

Raised(ex) == ViewRec(ex, "", 0, 0, "false", FALSE, <<>>)

RECURSIVE type_to_c_type(_)
type_to_c_type(t) ==
    IF t.category = "primitive" THEN
        LET saturate == (t.cast_mode = "saturated")
        IN  IF t.kind = "float" THEN
                ViewRec("none", IF t.bitlen = 64 THEN "double" ELSE "float", 0,
                        t.bitlen, "false", FALSE, <<>>)
            ELSE IF t.kind = "bool" THEN
                ViewRec("none", "bool", 0, t.bitlen, "false", saturate, <<>>)
            ELSE
                LET sat2 == integer_saturate(saturate, t.bitlen)
                    width == expand_to_next_full(t.bitlen)
                IN  IF width = 0
                    THEN Raised("TypeError")    \* '%d' % None
                    ELSE ViewRec("none", t.kind, width, t.bitlen,
                                 IF t.kind = "int" THEN "true" ELSE "false",
                                 sat2, <<>>)
    ELSE IF t.category = "array" THEN
        LET values == type_to_c_type(value_type(t))
        IN  IF values.raised # "none" THEN values
            ELSE [values EXCEPT !.array =
                    <<[cpp_type_category |-> t.value_category,
                       array_max_size_bit_len |-> bit_length(t.max_size),
                       dynamic_array |-> (t.mode = "dynamic"),
                       max_array_elements |-> t.max_size]>>]
    ELSE IF t.category = "compound" THEN
        \* bitlen is t.get_max_bitlen() of the parser library
        ViewRec("none", t.full_name, 0, t.bitlen, "false", FALSE, <<>>)
    ELSE IF t.category = "void" THEN
        ViewRec("none", "", 0, t.bitlen, "false", FALSE, <<>>)
    ELSE Raised("DsdlCompilerException")

CastModes == {"saturated", "truncated"}
FloatBitlens == {16, 32, 64}

PrimitiveTypes ==
    {PrimitiveType(k, b, c) : k \in {"uint", "int"}, b \in 1..MaxBitlen, c \in CastModes}
    \cup {PrimitiveType("bool", 1, c) : c \in CastModes}
    \cup {PrimitiveType("float", b, c) : b \in FloatBitlens, c \in CastModes}

ScalarTypes ==
    PrimitiveTypes \cup {CompoundType(n) : n \in Names}

MapperTypes ==
    ScalarTypes
    \cup {ArrayType(vt, m, k) : vt \in ScalarTypes, m \in {"static", "dynamic"},
                                k \in 1..MaxArraySize}
    \cup {VoidType(b) : b \in 1..MaxBitlen}
    \cup {TypeRec("unknown", "none", "", "none", 0, "none", "none", 0)}

NoType == TypeRec("none", "none", "", "none", 0, "none", "none", 0)

MapperIdle == arg = NoType /\ view = <<>>

InitMapper == arg \in MapperTypes /\ view = <<>>

\* data = type_to_c_type(a.type)
MapType ==
    /\ view = <<>>
    /\ arg # NoType
    /\ view' = <<type_to_c_type(arg)>>
    /\ UNCHANGED <<arg, resolverVars, emitVars, normVars>>

\* the next attribute is looked at
MapAnother ==
    /\ view # <<>>
    /\ arg' \in MapperTypes
    /\ view' = <<>>
    /\ UNCHANGED <<resolverVars, emitVars, normVars>>

---------------------------------------------------------------------------
(* Mapper: what the claims speak about *)

NativeWidths == {8, 16, 32, 64}

\* the primitive the call is about: the type itself or an array's element
Subject == IF arg.category = "array" THEN value_type(arg) ELSE arg

Returned == view # <<>> /\ view[1].raised = "none"

IntegerMapped ==
    /\ view # <<>>
    /\ Subject.category = "primitive"
    /\ Subject.kind \in {"uint", "int"}
    /\ Subject.bitlen \in 1..64

\* C5: for an integer of bit length b in 1..64 the width in the C type name
\* is the smallest of 8, 16, 32, 64 that is >= b.
C5_SmallestNativeWidth ==
    IntegerMapped =>
        /\ view[1].raised = "none"
        /\ view[1].cpp_type.base = Subject.kind
        /\ view[1].cpp_type.width \in NativeWidths
        /\ view[1].cpp_type.width >= Subject.bitlen
        /\ \A w \in NativeWidths :
              w >= Subject.bitlen => view[1].cpp_type.width <= w

\* C5 witness: an integer whose bit length is no native width was mapped
C5_Witness ==
    /\ IntegerMapped
    /\ arg.category = "primitive"
    /\ arg.bitlen = 12
    /\ view[1].cpp_type.width = 16

\* C6: an integer saturates exactly when its cast mode is saturated and the
\* expanded width differs from the declared bit length.
C6_SaturateRule ==
    IntegerMapped =>
        /\ view[1].saturate =
              (Subject.cast_mode = "saturated"
               /\ view[1].cpp_type.width # Subject.bitlen)
        /\ Subject.cast_mode = "truncated" => ~view[1].saturate
        /\ Subject.bitlen \in NativeWidths => ~view[1].saturate

\* C6 witness: saturation was requested for an exact-fit integer and is off
C6_Witness ==
    /\ IntegerMapped
    /\ arg.category = "primitive"
    /\ arg.cast_mode = "saturated"
    /\ arg.bitlen = 16
    /\ view[1].cpp_type.width = 16
    /\ ~view[1].saturate

\* C7: a float or a boolean never saturates, whatever its cast mode.
C7_FloatBoolNeverSaturate ==
    (Returned /\ arg.category = "primitive" /\ arg.kind \in {"float", "bool"}) =>
        ~view[1].saturate

---------------------------------------------------------------------------

(* libcanard_dsdl_compiler: text handling of generate_one_type.            *)
(* A text is a sequence of characters; "nl" is \n, "cr" is \r, "sp" a blank. *)

RECURSIVE SplitFrom(_, _, _, _)
SplitFrom(text, i, cur, acc) ==
    IF i > Len(text) THEN (IF cur = <<>> THEN acc ELSE Append(acc, cur))
    ELSE IF text[i] = "nl" THEN SplitFrom(text, i + 1, <<>>, Append(acc, cur))
    ELSE IF text[i] = "cr" THEN
        IF i < Len(text) /\ text[i + 1] = "nl"
        THEN SplitFrom(text, i + 2, <<>>, Append(acc, cur))
        ELSE SplitFrom(text, i + 1, <<>>, Append(acc, cur))
    ELSE SplitFrom(text, i + 1, Append(cur, text[i]), acc)

\* str.splitlines()
splitlines(text) == SplitFrom(text, 1, <<>>, <<>>)

RECURSIVE rstrip(_)
\* str.rstrip()
rstrip(line) ==
    IF line # <<>> /\ line[Len(line)] \in {"sp", "nl", "cr"}
    THEN rstrip(SubSeq(line, 1, Len(line) - 1))
    ELSE line

RECURSIVE join(_)
\* '\n'.join(lines)
join(lines) ==
    IF lines = <<>> THEN <<>>
    ELSE IF Len(lines) = 1 THEN lines[1]
    ELSE lines[1] \o <<"nl">> \o join(Tail(lines))

RECURSIVE ReplaceFrom(_, _, _, _, _)
ReplaceFrom(text, i, old, new, acc) ==
    IF i > Len(text) THEN acc
    ELSE IF i + Len(old) - 1 <= Len(text) /\ SubSeq(text, i, i + Len(old) - 1) = old
    THEN ReplaceFrom(text, i + Len(old), old, new, acc \o new)
    ELSE ReplaceFrom(text, i + 1, old, new, Append(acc, text[i]))

\* str.replace(old, new): leftmost occurrences, not overlapping
replace(text, old, new) == ReplaceFrom(text, 1, old, new, <<>>)

NL2 == <<"nl", "nl">>
NL3 == <<"nl", "nl", "nl">>
NL4 == <<"nl", "nl", "nl", "nl">>
NL5 == <<"nl", "nl", "nl", "nl", "nl">>

\* The "Generation" part of generate_one_type after the template was expanded
normalize(text) ==
    LET t1 == join([i \in 1..Len(splitlines(text)) |-> rstrip(splitlines(text)[i])])
        t2 == replace(replace(replace(t1, NL5, NL2), NL4, NL2), NL3, NL2)
    IN  replace(t2, <<"{", "nl", "nl", "sp">>, <<"{", "nl", "sp">>)

RECURSIVE Breaks(_)
\* k line breaks
Breaks(k) == IF k = 0 THEN <<>> ELSE <<"nl">> \o Breaks(k - 1)

\* Texts a template may expand to: a run of line breaks, then a line that is
\* blank or not, then a shorter run, between some text
TemplateTexts ==
    {pre \o Breaks(k) \o mid \o Breaks(j) \o post :
        pre \in {<<>>, <<"x">>, <<"x", "sp">>, <<"{">>},
        k \in 0..MaxBreakRun,
        mid \in {<<>>, <<"sp">>, <<"x">>},
        j \in 0..2,
        post \in {<<>>, <<"x">>, <<"sp", "x">>}}

NormIdle == raw_text = <<>> /\ norm_text = <<>>

InitNormalizer == raw_text \in TemplateTexts /\ norm_text = <<>>

\* "text = template_expander(t=t)" has returned raw_text: the three lines
\* after it
NormalizeText ==
    /\ norm_text = <<>>
    /\ norm_text' = <<normalize(raw_text)>>
    /\ UNCHANGED <<raw_text, resolverVars, mapperVars, emitVars>>

\* the text has a run of n or more line breaks
HasBreakRun(text, n) ==
    \E i \in 1..(Len(text) - n + 1) : \A j \in 0..(n - 1) : text[i + j] = "nl"

\* C13: the normalised text never has three or more blank lines in a row
\* (four or more line breaks in a row), however long the run in the input.
C13_AtMostTwoBlankLines ==
    norm_text # <<>> => ~HasBreakRun(norm_text[1], 4)

---------------------------------------------------------------------------
(* libcanard_dsdl_compiler: generate_one_type *)

\* Python values of the union attributes: a bool or an int
PyBool(b) == [type |-> "bool", val |-> IF b THEN 1 ELSE 0]
PyInt(i) == [type |-> "int", val |-> i]
Truthy(v) == v.val # 0
\* "a and b"
PyAnd(a, b) == IF Truthy(a) THEN b ELSE a

\* the tag width taken for the largest index instead of the field count
union_tag_of_last_index(union, fields) ==
    LET u == PyAnd(union, PyInt(Len(fields)))
    IN  IF Truthy(u) THEN PyInt(bit_length(Len(fields) - 1)) ELSE u

\* "t.union = t.union and len(t.fields); if t.union: t.union =
\* len(t.fields).bit_length()", likewise for request_union, response_union
union_tag(union, fields) ==
    LET u == PyAnd(union, PyInt(Len(fields)))
    IN  IF Truthy(u) THEN PyInt(bit_length(Len(fields))) ELSE u

\* A Field or Constant object of the parser.  attrs holds what
\* inject_cpp_types attaches, cpp_value what inject_constant_info attaches;
\* the name "None" is Python's None, "" the empty string.
Attribute(name, type, string_value) ==
    [name |-> name, type |-> type, string_value |-> string_value,
     attrs |-> <<>>, cpp_value |-> <<>>]

\* type_output_filename; a full name is the sequence of its dotted components
type_output_filename(full_name, extension) ==
    LET n == Len(full_name)
    IN  IF extension = "c"
        THEN [dir |-> SubSeq(full_name, 1, n - 1),
              file |-> <<full_name[n - 1], full_name[n]>>, ext |-> extension]
        ELSE [dir |-> SubSeq(full_name, 1, n - 1),
              file |-> <<full_name[n]>>, ext |-> extension]

\* fields_includes of generate_one_type (a sorted duplicate-free list: a set)
fields_includes(fields) ==
    {type_output_filename(fields[i].type.full_name, "h") :
        i \in {j \in 1..Len(fields) :
                 \/ fields[j].type.category = "compound"
                 \/ fields[j].type.category = "array"
                    /\ fields[j].type.value_category = "compound"}}

\* inject_cpp_types: the attributes after the loop
inject_cpp_types(attributes) ==
    [i \in 1..Len(attributes) |->
        LET a == attributes[i]
        IN  [a EXCEPT
               !.attrs = <<[last_item |-> (i = Len(attributes)),
                            data |-> type_to_c_type(a.type),
                            array_size |-> IF a.type.category = "array"
                                           THEN <<a.type.max_size>> ELSE <<>>,
                            type_category |-> a.type.category,
                            void |-> (a.type.category = "void")]>>,
               !.name = IF a.type.category = "void" THEN "" ELSE a.name]]

\* inject_cpp_types: its return value has_array
has_array(attributes) ==
    \E i \in 1..Len(attributes) : attributes[i].type.category = "array"

\* has_float16, called on the attributes inject_cpp_types has been through
has_float16(attributes) ==
    \E i \in 1..Len(attributes) :
        /\ attributes[i].type.category = "primitive"
        /\ attributes[i].type.kind = "float"
        /\ attributes[i].attrs[1].data.bitlen = 16

\* inject_constant_info; the parser's string_value is a valid literal
inject_constant_info(constants) ==
    [i \in 1..Len(constants) |->
        LET c == constants[i]
        IN  [c EXCEPT !.cpp_value =
               <<[text |-> c.string_value,
                  suffix |-> IF c.type.kind = "float" THEN ""
                             ELSE IF c.type.kind = "uint" THEN "U" ELSE ""]>>]]

\* generate_one_type up to the template expansion: the Type object afterwards.
\* Of the attributes it attaches, the renderings of full_name
\* (name_space_type_name, cpp_full_type_name, include_guard, macro_name,
\* cpp_namespace_components) and all_attributes (aliases of the lists) are
\* left out.
assemble(t) ==
    IF t.kind = "message" THEN
        [t EXCEPT
           !.fields = inject_cpp_types(t.fields),
           !.constants = inject_constant_info(inject_cpp_types(t.constants)),
           !.union = union_tag(t.union, t.fields),
           !.assemblies = t.assemblies + 1,
           !.derived = <<[cpp_includes |-> fields_includes(t.fields),
                          has_default_dtid |-> (t.default_dtid # <<>>),
                          has_array |-> has_array(t.fields),
                          has_float16 |-> has_float16(inject_cpp_types(t.fields)),
                          response_has_array |-> FALSE,
                          response_has_float16 |-> FALSE,
                          cpp_kind |-> "::uavcan::DataTypeKindMessage"]>>]
    ELSE
        [t EXCEPT
           !.request_fields = inject_cpp_types(t.request_fields),
           !.request_constants =
               inject_constant_info(inject_cpp_types(t.request_constants)),
           !.response_fields = inject_cpp_types(t.response_fields),
           !.response_constants =
               inject_constant_info(inject_cpp_types(t.response_constants)),
           !.request_union = union_tag(t.request_union, t.request_fields),
           !.response_union = union_tag(t.response_union, t.response_fields),
           !.assemblies = t.assemblies + 1,
           !.derived = <<[cpp_includes |->
                              fields_includes(t.request_fields \o t.response_fields),
                          has_default_dtid |-> (t.default_dtid # <<>>),
                          has_array |-> has_array(t.request_fields),
                          has_float16 |->
                              has_float16(inject_cpp_types(t.request_fields)),
                          response_has_array |-> has_array(t.response_fields),
                          response_has_float16 |->
                              has_float16(inject_cpp_types(t.response_fields)),
                          cpp_kind |-> "::uavcan::DataTypeKindService"]>>]

\* What the template engine returns for a type: the templates and pyratemp
\* are not part of the sources at hand.  The text depends on the template and
\* on the assembled type, and carries trailing blanks and runs of blank lines.
UnionMark(t) ==
    IF t.kind = "message"
    THEN (IF Truthy(t.union) THEN "u" ELSE "s")
    ELSE (IF Truthy(t.request_union) \/ Truthy(t.response_union) THEN "u" ELSE "s")

template_expander(template, t) ==
    IF template = "header"
    THEN <<"H", t.full_name[Len(t.full_name)], "sp", "nl", "nl", "nl", "nl",
           UnionMark(t), "{", "nl", "nl", "sp", "x", "nl">>
    ELSE <<"C", t.full_name[Len(t.full_name)], "nl", "nl", "nl", UnionMark(t), "sp", "nl">>

\* generate_one_type: the Type object afterwards and the text returned
generate_one_type(template, t) ==
    LET t2 == assemble(t)
    IN  [t |-> t2, text |-> normalize(template_expander(template, t2))]

---------------------------------------------------------------------------
(* libcanard_dsdl_compiler: run_generator and write_generated_data *)

\* The Type objects the parser hands over
TypeObj(full_name, kind, union, fields, constants, request_union, response_union, request_fields, response_fields) ==
    [full_name |-> full_name, kind |-> kind, default_dtid |-> <<>>,
     union |-> PyBool(union), fields |-> fields, constants |-> constants,
     request_union |-> PyBool(request_union),
     response_union |-> PyBool(response_union),
     request_fields |-> request_fields, response_fields |-> response_fields,
     request_constants |-> constants, response_constants |-> <<>>,
     header |-> <<>>, derived |-> <<>>, assemblies |-> 0]

NameA == <<"ns", "A">>
NameB == <<"ns", "B">>

\* The i-th field of a field list: the kinds of field take turns
SampleField(i) ==
    CASE i % 4 = 1 -> Attribute("f", PrimitiveType("uint", 12, "saturated"), "")
      [] i % 4 = 2 -> Attribute("None", VoidType(4), "")
      [] i % 4 = 3 -> Attribute("f", ArrayType(PrimitiveType("float", 16, "truncated"),
                                               "dynamic", 2), "")
      [] OTHER     -> Attribute("f", [CompoundType(NameB) EXCEPT !.bitlen = 12], "")

FieldList(n) == [i \in 1..n |-> SampleField(i)]

ConstantLists ==
    {<<>>,
     <<Attribute("K", PrimitiveType("uint", 8, "saturated"), "42")>>,
     <<Attribute("K", PrimitiveType("float", 32, "saturated"), "1.5")>>}

MessageTypes(name) ==
    {TypeObj(name, "message", u, FieldList(n), c, FALSE, FALSE, <<>>, <<>>) :
        u \in BOOLEAN, n \in 0..MaxFieldCount, c \in ConstantLists}

ServiceTypes(name) ==
    {TypeObj(name, "service", FALSE, <<>>, c, ru, su, FieldList(n), FieldList(m)) :
        ru \in BOOLEAN, su \in BOOLEAN, n \in 0..MaxFieldCount,
        m \in 0..MaxFieldCount, c \in ConstantLists}

\* ns.B as it stands next to the type under study
PlainB ==
    TypeObj(NameB, "message", FALSE, FieldList(1), <<>>, FALSE, FALSE, <<>>, <<>>)

TypeLists ==
    UNION {{<<t>>, <<t, PlainB>>, <<PlainB, t>>} :
              t \in MessageTypes(NameA) \cup ServiceTypes(NameA)}

Paths == {type_output_filename(n, e) : n \in {NameA, NameB}, e \in {"h", "c"}}

NoFile == [exists |-> FALSE, content |-> <<>>, mtime |-> 0]

\* write_generated_data that opens the file for appending in either case
write_generated_data_always_append(files, now, filename, data, append_file) ==
    [files EXCEPT ![filename] =
        [exists |-> TRUE, content |-> files[filename].content \o data,
         mtime |-> now]]

\* the mutation of the file at filename that write_generated_data makes
write_generated_data(files, now, filename, data, append_file) ==
    IF append_file
    THEN [files EXCEPT ![filename] =
            [exists |-> TRUE, content |-> files[filename].content \o data,
             mtime |-> now]]
    ELSE [files EXCEPT ![filename] =
            [exists |-> TRUE, content |-> data, mtime |-> now]]

EmitIdle ==
    /\ tlist = <<>> /\ tobj = <<>> /\ header_only = FALSE /\ idx = 0
    /\ epc = "idle" /\ header_text = <<>> /\ code_text = <<>>
    /\ fs = <<>> /\ clock = 0 /\ runs = 0 /\ fs_before = <<>>

InitEmitter ==
    /\ tlist \in TypeLists
    /\ tobj = tlist
    /\ header_only \in BOOLEAN
    /\ idx = 1
    /\ epc = "generate_header"
    /\ header_text = <<>>
    /\ code_text = <<>>
    /\ fs = [p \in Paths |-> NoFile]
    /\ clock = 0
    /\ runs = 1
    /\ fs_before = fs

header_path_file_name == type_output_filename(tlist[idx].full_name, "h")
code_filename == type_output_filename(tlist[idx].full_name, "c")

\* The loop body up to "header_text = generate_one_type(...)"
GenerateHeader ==
    /\ epc = "generate_header"
    /\ LET t1 == [tobj[idx] EXCEPT !.header =
                    <<[header_filename |-> header_path_file_name,
                       header_only |-> header_only]>>]
           g == generate_one_type("header", t1)
       IN  /\ tobj' = [tobj EXCEPT ![idx] = g.t]
           /\ header_text' = g.text
    /\ epc' = "generate_code"
    /\ UNCHANGED <<tlist, header_only, idx, code_text, fs, clock, runs, fs_before,
                   resolverVars, mapperVars, normVars>>

\* "code_text = generate_one_type(code_template_expander, t)"
GenerateCode ==
    /\ epc = "generate_code"
    /\ LET g == generate_one_type("code", tobj[idx])
       IN  /\ tobj' = [tobj EXCEPT ![idx] = g.t]
           /\ code_text' = g.text
    /\ epc' = "write_header"
    /\ UNCHANGED <<tlist, header_only, idx, header_text, fs, clock, runs, fs_before,
                   resolverVars, mapperVars, normVars>>

\* "write_generated_data(header_path_file_name, header_text, header_only)"
WriteHeader ==
    /\ epc = "write_header"
    /\ fs' = write_generated_data(fs, clock + 1, header_path_file_name,
                                  header_text, FALSE)
    /\ clock' = clock + 1
    /\ epc' = "write_code"
    /\ UNCHANGED <<tlist, tobj, header_only, idx, header_text, code_text, runs,
                   fs_before, resolverVars, mapperVars, normVars>>

\* the end of the loop body: the next type, or the end of run_generator
NextType ==
    IF idx < Len(tlist)
    THEN idx' = idx + 1 /\ epc' = "generate_header"
    ELSE idx' = idx /\ epc' = "done"

\* "write_generated_data(code_filename, code_text, header_only)"
WriteCode ==
    /\ epc = "write_code"
    /\ ~header_only
    /\ fs' = write_generated_data(fs, clock + 1, code_filename, code_text, FALSE)
    /\ clock' = clock + 1
    /\ NextType
    /\ UNCHANGED <<tlist, tobj, header_only, header_text, code_text, runs,
                   fs_before, resolverVars, mapperVars, normVars>>

\* header_only: the code text goes to the end of the header file
AppendCode ==
    /\ epc = "write_code"
    /\ header_only
    /\ code_text' = <<"cr", "nl">> \o code_text
    /\ fs' = write_generated_data(fs, clock + 1, header_path_file_name,
                                  code_text', TRUE)
    /\ clock' = clock + 1
    /\ NextType
    /\ UNCHANGED <<tlist, tobj, header_only, header_text, runs, fs_before,
                   resolverVars, mapperVars, normVars>>

\* makedirs or open fails in write_generated_data: "except Exception: die(ex)"
WriteFails ==
    /\ epc \in {"write_header", "write_code"}
    /\ epc' = "failed"
    /\ UNCHANGED <<tlist, tobj, header_only, idx, header_text, code_text, fs,
                   clock, runs, fs_before, resolverVars, mapperVars, normVars>>

\* run() is called once more, in a new process, on the unchanged schema and
\* the same output directory
Rerun ==
    /\ epc = "done"
    /\ runs < MaxRuns
    /\ runs' = runs + 1
    /\ tobj' = tlist
    /\ idx' = 1
    /\ epc' = "generate_header"
    /\ header_text' = <<>>
    /\ code_text' = <<>>
    /\ fs_before' = fs
    /\ UNCHANGED <<tlist, header_only, fs, clock, resolverVars, mapperVars, normVars>>

---------------------------------------------------------------------------
(* Emitter: what the claims speak about *)

\* C4: a second run over the unchanged type set writes no file whose new
\* content equals the existing content; with header_only off that is every
\* file, so the output tree (contents and modification times) stays as the
\* first run left it.
C4_SecondRunWritesNothing ==
    (runs >= 2 /\ ~header_only) => \A p \in Paths : fs[p] = fs_before[p]

\* the least number of bits in which the count n can be written
MinBits(n) ==
    CHOOSE k \in 0..n : 2 ^ k > n /\ \A j \in 0..(k - 1) : 2 ^ j <= n

\* the union attribute after assembly, for a parsed flag and a field list
TagAsClaimed(after, flag, fields) ==
    /\ (Truthy(flag) /\ Len(fields) >= 1) => after = PyInt(MinBits(Len(fields)))
    /\ Len(fields) = 0 => ~Truthy(after)

\* C8: after a type was assembled (once for the header text, and again for
\* the code text) its union attribute is the least number of bits that hold
\* the field count when the flag was set and there are fields, and stays
\* false without fields; request and response fields of a service each have
\* their own.
C8_UnionTagWidth ==
    \A i \in 1..Len(tobj) :
        tobj[i].assemblies >= 1 =>
            IF tobj[i].kind = "message"
            THEN TagAsClaimed(tobj[i].union, tlist[i].union, tlist[i].fields)
            ELSE /\ TagAsClaimed(tobj[i].request_union, tlist[i].request_union,
                                 tlist[i].request_fields)
                 /\ TagAsClaimed(tobj[i].response_union, tlist[i].response_union,
                                 tlist[i].response_fields)

\* C8 witness: a service union with 3 request and 4 response fields was
\* assembled twice
C8_Witness ==
    \E i \in 1..Len(tobj) :
        /\ tobj[i].assemblies = 2
        /\ tobj[i].kind = "service"
        /\ Truthy(tlist[i].request_union) /\ Truthy(tlist[i].response_union)
        /\ Len(tlist[i].request_fields) = 3
        /\ Len(tlist[i].response_fields) = 4
        /\ tobj[i].request_union = PyInt(2)
        /\ tobj[i].response_union = PyInt(3)

\* the Type object at position i without the count of assemblies the model
\* keeps with it
LiveRecord(i) == [tobj[i] EXCEPT !.assemblies = 0]

\* C11: assembling leaves every Type, Field and Constant record of the
\* parser as it was received: nothing is attached to it and nothing of it is
\* overwritten, the union flag and a void field's name included.
C11_ParserRecordsUnchanged ==
    \A i \in 1..Len(tobj) :
        /\ LiveRecord(i).union = tlist[i].union
        /\ LiveRecord(i).request_union = tlist[i].request_union
        /\ LiveRecord(i).response_union = tlist[i].response_union
        /\ LiveRecord(i).fields = tlist[i].fields
        /\ LiveRecord(i).constants = tlist[i].constants
        /\ LiveRecord(i).request_fields = tlist[i].request_fields
        /\ LiveRecord(i).response_fields = tlist[i].response_fields
        /\ LiveRecord(i) = tlist[i]

\* What run_generator computes for the type at position i of a fresh list:
\* the header text of the first assembly, the code text of the second
FirstAssembly(i) ==
    generate_one_type("header",
        [tlist[i] EXCEPT !.header =
            <<[header_filename |-> type_output_filename(tlist[i].full_name, "h"),
               header_only |-> header_only]>>])
HeaderTextOf(i) == FirstAssembly(i).text
CodeTextOf(i) == generate_one_type("code", FirstAssembly(i).t).text

\* the loop body of the current run is through with the type at position i
Emitted(i) == i < idx \/ (i = idx /\ epc = "done")

HeaderPathOf(i) == type_output_filename(tlist[i].full_name, "h")
CodePathOf(i) == type_output_filename(tlist[i].full_name, "c")

\* C12: in header-only mode each emitted type has one file, the header path,
\* holding the header text and after it the appended code text (the code
\* prepends "\r\n" to what it appends), nothing is written to the code path,
\* and a header left by an earlier run does not make the text pile up; with
\* header-only off the header text and the code text are in two files.
C12_HeaderOnlyOneFile ==
    /\ \A i \in 1..Len(tlist) :
          Emitted(i) =>
              IF header_only
              THEN /\ fs[HeaderPathOf(i)].exists
                   /\ fs[HeaderPathOf(i)].content =
                         HeaderTextOf(i) \o <<"cr", "nl">> \o CodeTextOf(i)
                   /\ ~fs[CodePathOf(i)].exists
              ELSE /\ fs[HeaderPathOf(i)].exists
                   /\ fs[HeaderPathOf(i)].content = HeaderTextOf(i)
                   /\ fs[CodePathOf(i)].exists
                   /\ fs[CodePathOf(i)].content = CodeTextOf(i)
    /\ \A p \in Paths :
          fs[p].exists =>
              \E i \in 1..Len(tlist) :
                  \/ p = HeaderPathOf(i)
                  \/ (~header_only /\ p = CodePathOf(i))

\* C12 witness: a header-only run over two types ended on top of the files
\* of an earlier run, and rewrote the first type's header
C12_Witness ==
    /\ header_only
    /\ runs = 2
    /\ epc = "done"
    /\ Len(tlist) = 2
    /\ fs_before[HeaderPathOf(1)].exists
    /\ fs[HeaderPathOf(1)].mtime > fs_before[HeaderPathOf(1)].mtime
    /\ fs[HeaderPathOf(1)].content =
          HeaderTextOf(1) \o <<"cr", "nl">> \o CodeTextOf(1)
    /\ CodeTextOf(1) # <<>>

---------------------------------------------------------------------------

Init == InitResolver /\ MapperIdle /\ EmitIdle /\ NormIdle

Next == SolveBuild \/ TopoStart \/ TopoStep \/ TopoRaise \/ TopoReturn

Spec == Init /\ [][Next]_vars

NextRecompile == Next \/ Recompile

SpecRecompile == Init /\ [][NextRecompile]_vars

InitMap == ResolverIdle /\ InitMapper /\ EmitIdle /\ NormIdle

NextMap == MapType \/ MapAnother

SpecMapper == InitMap /\ [][NextMap]_vars

InitEmit == ResolverIdle /\ MapperIdle /\ InitEmitter /\ NormIdle

NextEmit ==
    GenerateHeader \/ GenerateCode \/ WriteHeader \/ WriteCode \/ AppendCode
    \/ WriteFails \/ Rerun

SpecEmit == InitEmit /\ [][NextEmit]_vars

InitNorm == ResolverIdle /\ MapperIdle /\ EmitIdle /\ InitNormalizer

NextNorm == NormalizeText

SpecNormalize == InitNorm /\ [][NextNorm]_vars

=============================================================================
